---- MODULE Spec2Model ----
(***************************************************************************)
(* LittleSleeper audio server: a capture process (process_audio) writes    *)
(* (timestamp, peak amplitude) samples into a shared ring buffer under a   *)
(* lock, and a request process (process_requests) snapshots the buffer     *)
(* under the same lock and segments the history into noise blocks.         *)
(*                                                                         *)
(* Numbers.  Timestamps are whole seconds.  The float32 signal is kept as  *)
(* exact rationals: audio_signal[i] stands for audio_signal[i] / sig_den.  *)
(* noise_threshold is a pair <<numerator, denominator>>.                   *)
(***************************************************************************)
EXTENDS Integers, Sequences, FiniteSets, TLC

\* ---------------------------------------------------------------- bounds
BufferLen == 2      \* slots of the ring buffer (buffer_len)
WinLen == 1         \* samples of one capture window (CHUNK_SIZE)
MaxAppends == 3     \* appends the capture loop performs in a run
MaxConns == 1       \* connections the client opens in a run
HourChunks == 2     \* slots of the last hour (hour_chunks)
PlotPoints == 3     \* points of the plot (num=3600)
MaxLen == 6         \* longest sequence handed to the segmentation alone
MaxT == 6           \* last timestamp handed to the segmentation alone

\* ------------------------------------------------------------- constants
Int16Min == -32768
SigmaRadius == 31   \* int(4.0 * sigma + 0.5), sigma = 4 * (16000 / 8192.0)

\* values one raw sample of a window can take
SampleVals == {Int16Min, -20000}

VARIABLES
    shared_time,    \* mp.Array(c_double): timestamps, 0 = never written
    shared_audio,   \* mp.Array(c_short): peak amplitudes
    shared_pos,     \* mp.Value('i'): next slot to overwrite
    lock,           \* mp.Lock: "free" or the process holding it
    clock,          \* time.time()
    a_pc,           \* process_audio: position
    audio,          \* process_audio: the window read from the stream
    current_time,   \* process_audio: its timestamp
    history,        \* every completed append, in order (history variable)
    r_pc,           \* process_requests: position
    r_err,          \* process_requests: the exception that ended it
    conn,           \* process_requests: number of the connection accepted
    parameters,     \* process_requests: the request received
    time_stamps,    \* process_requests: local copy of shared_time
    audio_signal,   \* process_requests: local copy of shared_audio
    sig_den,        \* denominator of audio_signal
    current_pos,    \* process_requests: local copy of shared_pos
    snap_count,     \* appends completed when the snapshot was taken (history variable)
    audio_plot,     \* process_requests: plot values, over sig_den * (PlotPoints - 1)
    noise,          \* process_requests: loud mask
    silent,         \* process_requests: quiet mask
    crying_blocks,  \* process_requests: noise blocks found
    time_crying,    \* process_requests: "Baby noise for ..." or ""
    time_quiet,     \* process_requests: "Baby quiet for ..." or ""
    c_pc,           \* client: position
    request,        \* message client -> server in flight
    response,       \* message server -> client in flight, then received
    n_conn          \* connections opened so far

sharedVars == <<shared_time, shared_audio, shared_pos>>
audioVars == <<a_pc, audio, current_time, history>>
snapVars == <<time_stamps, audio_signal, sig_den, current_pos, snap_count, audio_plot>>
segVars == <<noise, silent, crying_blocks, time_crying, time_quiet>>
reqVars == <<r_pc, r_err, conn, parameters>>
clientVars == <<c_pc, request, response, n_conn>>
vars == <<sharedVars, lock, clock, audioVars, reqVars, snapVars, segVars, clientVars>>

Slots == 0 .. BufferLen - 1
\* an empty channel; a channel holds at most one message
NoMsg == << >>
\* no request received yet
NoParams == << >>
EmptyStr == << >>

\* ------------------------------------------------------------ helpers
Abs(x) == IF x < 0 THEN -x ELSE x

\* np.abs on an int16 array: the result is int16 again
Abs16(x) == ((Abs(x) + 32768) % 65536) - 32768

RECURSIVE SeqMax(_)
SeqMax(s) ==
    IF Len(s) = 1 THEN s[1]
    ELSE LET m == SeqMax(Tail(s)) IN IF s[1] > m THEN s[1] ELSE m

\* np.abs(audio).max()
PeakAmplitude(w) == SeqMax([i \in 1 .. Len(w) |-> Abs16(w[i])])

Windows == [1 .. WinLen -> SampleVals]

\* the cursor advanced without wrapping
NextPosNoWrap(p) == p + 1

\* (shared_pos.value + 1) % len(shared_time)
NextPos(p) == (p + 1) % BufferLen

\* ---------------------------------------------------- process_audio
\* p.open(...): the stream opens, or the device is unavailable
OpenStream ==
    /\ a_pc = "open"
    /\ \E ok \in BOOLEAN : a_pc' = IF ok THEN "read" ELSE "dead"
    /\ UNCHANGED <<sharedVars, lock, clock, audio, current_time, history,
                   reqVars, snapVars, segVars, clientVars>>

\* stream.read(CHUNK_SIZE) blocks for one window, then time.time(); the
\* clock counts the windows, a failed read included
\* the lock taken before the window is read instead of after
StreamReadLocked ==
    /\ a_pc = "read"
    /\ Len(history) < MaxAppends
    /\ lock = "free"
    /\ lock' = "audio"
    /\ clock' = clock + 1
    /\ \/ \E w \in Windows :
            /\ audio' = w
            /\ current_time' = clock'
            /\ a_pc' = "write_time"
       \/ /\ a_pc' = "dead"
          /\ UNCHANGED <<audio, current_time>>
    /\ UNCHANGED <<sharedVars, history, reqVars, snapVars, segVars, clientVars>>

\* lines 32-35; a failed read raises and ends the process
StreamRead ==
    /\ a_pc = "read"
    /\ Len(history) < MaxAppends
    /\ clock' = clock + 1
    /\ \/ \E w \in Windows :
            /\ audio' = w
            /\ current_time' = clock'
            /\ a_pc' = "acquire"
       \/ /\ a_pc' = "dead"
          /\ UNCHANGED <<audio, current_time>>
    /\ UNCHANGED <<sharedVars, lock, history, reqVars, snapVars, segVars, clientVars>>

\* the critical section entered without waiting for the lock
AudioAcquireUnlocked ==
    /\ a_pc = "acquire"
    /\ lock' = "audio"
    /\ a_pc' = "write_time"
    /\ UNCHANGED <<sharedVars, clock, audio, current_time, history,
                   reqVars, snapVars, segVars, clientVars>>

\* line 38
AudioAcquire ==
    /\ a_pc = "acquire"
    /\ lock = "free"
    /\ lock' = "audio"
    /\ a_pc' = "write_time"
    /\ UNCHANGED <<sharedVars, clock, audio, current_time, history,
                   reqVars, snapVars, segVars, clientVars>>

WriteTime ==
    /\ a_pc = "write_time"
    /\ shared_time' = [shared_time EXCEPT ![shared_pos] = current_time]
    /\ a_pc' = "write_audio"
    /\ UNCHANGED <<shared_audio, shared_pos, lock, clock, audio, current_time, history,
                   reqVars, snapVars, segVars, clientVars>>

WriteAudio ==
    /\ a_pc = "write_audio"
    /\ shared_audio' = [shared_audio EXCEPT ![shared_pos] = PeakAmplitude(audio)]
    /\ a_pc' = "inc_pos"
    /\ UNCHANGED <<shared_time, shared_pos, lock, clock, audio, current_time, history,
                   reqVars, snapVars, segVars, clientVars>>

\* line 47; the window is dead from here to the next read and is dropped
IncPos ==
    /\ a_pc = "inc_pos"
    /\ shared_pos' = NextPos(shared_pos)
    /\ history' = Append(history, [time |-> current_time,
                                   amp |-> PeakAmplitude(audio)])
    /\ audio' = << >>
    /\ a_pc' = "release"
    /\ UNCHANGED <<shared_time, shared_audio, lock, clock, current_time,
                   reqVars, snapVars, segVars, clientVars>>

\* the loop going round without the release of line 50
AudioReleaseKeep ==
    /\ a_pc = "release"
    /\ a_pc' = "read"
    /\ UNCHANGED <<sharedVars, lock, clock, audio, current_time, history,
                   reqVars, snapVars, segVars, clientVars>>

\* line 50
AudioRelease ==
    /\ a_pc = "release"
    /\ lock' = "free"
    /\ a_pc' = "read"
    /\ UNCHANGED <<sharedVars, clock, audio, current_time, history,
                   reqVars, snapVars, segVars, clientVars>>

\* ------------------------------------------------- request parameters
Keys == {"upper_limit", "noise_threshold", "min_quiet_time", "min_noise_time"}

\* the mapping web_server.broadcast_mic_data sends
FullParameters ==
    [upper_limit |-> 25000, noise_threshold |-> <<1, 4>>,
     min_quiet_time |-> 2, min_noise_time |-> 1]

Without(p, key) == [k \in (DOMAIN p) \ {key} |-> p[k]]

\* the requests a client can send: well-formed, or one key missing
ParamSets == {FullParameters} \cup {Without(FullParameters, k) : k \in Keys}

Has(p, key) == key \in DOMAIN p

\* --------------------------------------------- lines 88-116: the snapshot
\* np.frombuffer(shared, ...).copy(): a new array with the slots' values
FromBuffer(arr) == [i \in 1 .. BufferLen |-> arr[i - 1]]

\* shift=buffer_len-current_pos
RollShift(n, pos) == n - pos

\* np.roll(a, shift): element i moves to (i + shift) mod n
Roll(a, shift) ==
    LET n == Len(a) IN [j \in 1 .. n |-> a[((j - 1 - shift) % n) + 1]]

\* weights of the Gaussian kernel, exp(-x^2 / (2 sigma^2)) scaled by 100
GaussWeights ==
    <<100, 99, 97, 93, 88, 81, 74, 67, 59, 52, 44, 37, 31, 25,
      20, 16, 12, 9, 7, 5, 4, 3, 2, 1, 1, 1, 0, 0, 0, 0, 0, 0>>

RECURSIVE SeqSum(_)
SeqSum(s) == IF s = << >> THEN 0 ELSE s[1] + SeqSum(Tail(s))

KernelSum == GaussWeights[1] + 2 * SeqSum(Tail(GaussWeights))

\* mode="reflect": (d c b a | a b c d | d c b a), position k is 1-based
Reflect(k, n) ==
    LET m == (k - 1) % (2 * n) IN IF m < n THEN m + 1 ELSE 2 * n - m

\* one output of the correlation: the taps lo .. hi around position i
RECURSIVE TapSum(_, _, _, _)
TapSum(a, i, lo, hi) ==
    IF lo = hi THEN GaussWeights[Abs(lo) + 1] * a[Reflect(i + lo, Len(a))]
    ELSE LET mid == (lo + hi + 2 * SigmaRadius) \div 2 - SigmaRadius
         IN  TapSum(a, i, lo, mid) + TapSum(a, i, mid + 1, hi)

\* ndimage.gaussian_filter1d(a, sigma, mode="reflect"), over KernelSum
GaussianFilter1d(a) ==
    [i \in 1 .. Len(a) |-> TapSum(a, i, -SigmaRadius, SigmaRadius)]

\* audio_signal[-hour_chunks:]
LastHour(a) ==
    LET n == Len(a)
        h == IF HourChunks < n THEN HourChunks ELSE n
    IN  [i \in 1 .. h |-> a[n - h + i]]

\* interp1d(xs, y)(np.linspace(0, xs[-1], num)), over PlotPoints - 1
Resample(y) ==
    LET h == Len(y)
        at(k) ==
            LET f == (k * (h - 1)) \div (PlotPoints - 1)
                r == (k * (h - 1)) % (PlotPoints - 1)
            IN  IF r = 0 THEN y[f + 1] * (PlotPoints - 1)
                ELSE y[f + 1] * (PlotPoints - 1 - r) + y[f + 2] * r
    IN  [k \in 1 .. PlotPoints |-> at(k - 1)]

\* indices kept by a boolean mask, in order
RECURSIVE Kept(_, _)
Kept(mask, i) ==
    IF i > Len(mask) THEN << >>
    ELSE IF mask[i] THEN <<i>> \o Kept(mask, i + 1) ELSE Kept(mask, i + 1)

\* a[mask]
Masked(a, mask) == LET ix == Kept(mask, 1) IN [i \in 1 .. Len(ix) |-> a[ix[i]]]

\* time_stamps > 0
Written(ts) == [i \in 1 .. Len(ts) |-> ts[i] > 0]

\* ------------------------------------------ lines 118-171: segmentation
\* a[i] with Python's 0-based index
At(a, i) == a[i + 1]

\* the threshold itself counted as noise
IsNoiseOrEqual(v, den, thr) == v * thr[2] >= thr[1] * den

\* audio_signal > parameters['noise_threshold']
IsNoise(v, den, thr) == v * thr[2] > thr[1] * den

\* audio_signal < parameters['noise_threshold']
IsSilent(v, den, thr) == v * thr[2] < thr[1] * den

RECURSIVE RunStop(_, _)
RunStop(mask, i) ==
    IF i + 1 <= Len(mask) /\ mask[i + 1] THEN RunStop(mask, i + 1) ELSE i

\* ndimage.find_objects(ndimage.label(mask)): the slices [start, stop) of
\* the runs of True, 0-based, in order
RECURSIVE FindObjects(_, _)
FindObjects(mask, i) ==
    IF i > Len(mask) THEN << >>
    ELSE IF ~mask[i] THEN FindObjects(mask, i + 1)
    ELSE LET e == RunStop(mask, i)
         IN  <<[start |-> i - 1, stop |-> e]>> \o FindObjects(mask, e + 1)

\* np.any(mask)
AnyTrue(mask) == \E i \in 1 .. Len(mask) : mask[i]

\* no silent block exempted
SkipNone(start) == FALSE

\* if start == 0: continue
SkipBlock(start) == start = 0

\* a gap of exactly min_quiet_time joined as well
JoinBlockOrEqual(interval_length, min_quiet_time) == interval_length <= min_quiet_time

\* the comparison turned round
JoinBlockInverted(interval_length, min_quiet_time) == interval_length > min_quiet_time

\* interval_length < parameters['min_quiet_time']
JoinBlock(interval_length, min_quiet_time) == interval_length < min_quiet_time

\* the silent block at the end exempted like the one at the beginning
JoinCandidatesInner(mask) ==
    LET r == FindObjects(mask, 1)
    IN  {r[k] : k \in {j \in 1 .. Len(r) :
                          ~SkipBlock(r[j].start) /\ r[j].stop # Len(mask)}}

\* the silent blocks the loop of line 129 does not skip
JoinCandidates(mask) ==
    LET r == FindObjects(mask, 1)
    IN  {r[k] : k \in {j \in 1 .. Len(r) : ~SkipBlock(r[j].start)}}

\* lines 129-139: noise[start:stop] = True for every silent block joined
JoinNoise(nz, sl, ts, min_quiet_time) ==
    [i \in 1 .. Len(nz) |->
        \/ nz[i]
        \/ \E b \in JoinCandidates(sl) :
              /\ JoinBlock(At(ts, b.stop - 1) - At(ts, b.start), min_quiet_time)
              /\ b.start <= i - 1
              /\ i - 1 < b.stop]

\* a block of exactly min_noise_time ignored as well
IgnoreBlockOrEqual(duration, min_noise_time) == duration <= min_noise_time

\* if duration < parameters['min_noise_time']: continue
IgnoreBlock(duration, min_noise_time) == duration < min_noise_time

\* str(timedelta).split('.')[0]: days, hours, minutes, seconds
FormatTimeDifference(time1, time2) ==
    LET d == time2 - time1
    IN  <<d \div 86400, (d % 86400) \div 3600, (d % 3600) \div 60, d % 60>>

\* strftime("%I:%M:%S %p").lstrip('0'), clock of the UTC zone
StartStr(t) ==
    LET h == (t \div 3600) % 24
    IN  <<IF h % 12 = 0 THEN 12 ELSE h % 12, (t % 3600) \div 60, t % 60,
          IF h < 12 THEN "AM" ELSE "PM">>

\* lines 144-157: the blocks kept, in order
RECURSIVE CryingBlocks(_, _, _)
CryingBlocks(ranges, ts, min_noise_time) ==
    IF ranges = << >> THEN << >>
    ELSE LET cry == Head(ranges)
             start == At(ts, cry.start)
             stop == At(ts, cry.stop - 1)
             rest == CryingBlocks(Tail(ranges), ts, min_noise_time)
         IN  IF IgnoreBlock(stop - start, min_noise_time) THEN rest
             ELSE <<[start |-> start, start_str |-> StartStr(start),
                     stop |-> stop,
                     duration |-> FormatTimeDifference(start, stop)]>> \o rest

\* the end of the hysteresis window counted as noise
StillCryingOrEqual(time_current, stop, min_quiet_time) ==
    time_current - stop <= min_quiet_time

\* time_current - crying_blocks[-1]['stop'] < parameters['min_quiet_time']
StillCrying(time_current, stop, min_quiet_time) == time_current - stop < min_quiet_time

StrCrying == "Baby noise for "
StrQuiet == "Baby quiet for "

\* the else of line 170 lost: time_quiet is set whenever a block exists
CurrentStringsNoElse(blocks, ts, time_current, min_quiet_time) ==
    IF Len(blocks) = 0
    THEN [time_crying |-> EmptyStr,
          time_quiet |-> <<StrQuiet, FormatTimeDifference(At(ts, 0), time_current)>>]
    ELSE LET last == blocks[Len(blocks)]
         IN  [time_crying |->
                 IF StillCrying(time_current, last.stop, min_quiet_time)
                 THEN <<StrCrying, FormatTimeDifference(last.start, time_current)>>
                 ELSE EmptyStr,
              time_quiet |-> <<StrQuiet, FormatTimeDifference(last.stop, time_current)>>]

\* lines 161-171: time_crying and time_quiet
CurrentStrings(blocks, ts, time_current, min_quiet_time) ==
    IF Len(blocks) = 0
    THEN [time_crying |-> EmptyStr,
          time_quiet |-> <<StrQuiet, FormatTimeDifference(At(ts, 0), time_current)>>]
    ELSE LET last == blocks[Len(blocks)]
         IN  IF StillCrying(time_current, last.stop, min_quiet_time)
             THEN [time_crying |-> <<StrCrying,
                                     FormatTimeDifference(last.start, time_current)>>,
                   time_quiet |-> EmptyStr]
             ELSE [time_crying |-> EmptyStr,
                   time_quiet |-> <<StrQuiet,
                                    FormatTimeDifference(last.stop, time_current)>>]

\* -------------------------------------------------- process_requests
Crash(err) ==
    /\ r_pc' = "crashed"
    /\ r_err' = err

\* the client of the connection accepted has closed its end
PeerGone == ~(conn = n_conn /\ c_pc \in {"connected", "sent"})

\* listener.accept(): a connection not yet accepted is waiting
Accept ==
    /\ r_pc = "accept"
    /\ c_pc \in {"connected", "sent"}
    /\ conn # n_conn
    /\ conn' = n_conn
    /\ r_pc' = "recv"
    /\ UNCHANGED <<sharedVars, lock, clock, audioVars, r_err, parameters,
                   snapVars, segVars, clientVars>>

\* conn.recv(): the message, or EOFError when the client has gone
Recv ==
    /\ r_pc = "recv"
    /\ \/ /\ request # NoMsg
          /\ parameters' = request[1]
          /\ request' = NoMsg
          /\ r_pc' = "acquire"
          /\ UNCHANGED r_err
       \/ /\ request = NoMsg
          /\ PeerGone
          /\ Crash("EOFError")
          /\ UNCHANGED <<parameters, request>>
    /\ UNCHANGED <<sharedVars, lock, clock, audioVars, conn, snapVars, segVars,
                   c_pc, response, n_conn>>

\* the snapshot begun without waiting for the lock
ReqAcquireUnlocked ==
    /\ r_pc = "acquire"
    /\ lock' = "requests"
    /\ snap_count' = Len(history)
    /\ r_pc' = "copy_time"
    /\ UNCHANGED <<sharedVars, clock, audioVars, r_err, conn, parameters, time_stamps,
                   audio_signal, sig_den, current_pos, audio_plot, segVars, clientVars>>

\* line 85
ReqAcquire ==
    /\ r_pc = "acquire"
    /\ lock = "free"
    /\ lock' = "requests"
    /\ snap_count' = Len(history)
    /\ r_pc' = "copy_time"
    /\ UNCHANGED <<sharedVars, clock, audioVars, r_err, conn, parameters, time_stamps,
                   audio_signal, sig_den, current_pos, audio_plot, segVars, clientVars>>

CopyTime ==
    /\ r_pc = "copy_time"
    /\ time_stamps' = FromBuffer(shared_time)
    /\ r_pc' = "copy_audio"
    /\ UNCHANGED <<sharedVars, lock, clock, audioVars, r_err, conn, parameters,
                   audio_signal, sig_den, current_pos, snap_count, audio_plot,
                   segVars, clientVars>>

CopyAudio ==
    /\ r_pc = "copy_audio"
    /\ audio_signal' = FromBuffer(shared_audio)
    /\ sig_den' = 1
    /\ r_pc' = "copy_pos"
    /\ UNCHANGED <<sharedVars, lock, clock, audioVars, r_err, conn, parameters,
                   time_stamps, current_pos, snap_count, audio_plot, segVars, clientVars>>

CopyPos ==
    /\ r_pc = "copy_pos"
    /\ current_pos' = shared_pos
    /\ r_pc' = "release"
    /\ UNCHANGED <<sharedVars, lock, clock, audioVars, r_err, conn, parameters,
                   time_stamps, audio_signal, sig_den, snap_count, audio_plot,
                   segVars, clientVars>>

\* the snapshot processed without the release of line 93
ReqReleaseKeep ==
    /\ r_pc = "release"
    /\ r_pc' = "prepare"
    /\ UNCHANGED <<sharedVars, lock, clock, audioVars, r_err, conn, parameters,
                   snapVars, segVars, clientVars>>

\* line 93
ReqRelease ==
    /\ r_pc = "release"
    /\ lock' = "free"
    /\ r_pc' = "prepare"
    /\ UNCHANGED <<sharedVars, clock, audioVars, r_err, conn, parameters, snapVars,
                   segVars, clientVars>>

\* the snapshot taken as a view of the shared array, so that the division of
\* line 101 is done in the shared amplitudes
PrepareInPlace ==
    /\ r_pc = "prepare"
    /\ IF ~Has(parameters, "upper_limit")
       THEN /\ Crash("KeyError")
            /\ UNCHANGED <<shared_audio, time_stamps, audio_signal, sig_den, audio_plot>>
       ELSE IF Len(LastHour(audio_signal)) # HourChunks
       THEN /\ Crash("ValueError")
            /\ shared_audio' = [i \in Slots |->
                                  shared_audio[i] \div parameters["upper_limit"]]
            /\ UNCHANGED <<time_stamps, audio_signal, sig_den, audio_plot>>
       ELSE LET buffer_len == Len(time_stamps)
                rolled_time == Roll(time_stamps, RollShift(buffer_len, current_pos))
                rolled_audio == Roll(audio_signal, RollShift(buffer_len, current_pos))
                smoothed == GaussianFilter1d(rolled_audio)
                mask == Written(rolled_time)
            IN  /\ shared_audio' = [i \in Slots |->
                                      shared_audio[i] \div parameters["upper_limit"]]
                /\ audio_plot' = Resample(LastHour(smoothed))
                /\ time_stamps' = Masked(rolled_time, mask)
                /\ audio_signal' = Masked(smoothed, mask)
                /\ sig_den' = sig_den * parameters["upper_limit"] * KernelSum
                /\ r_pc' = "classify"
                /\ UNCHANGED r_err
    /\ UNCHANGED <<shared_time, shared_pos, lock, clock, audioVars, conn, parameters,
                   current_pos, snap_count, segVars, clientVars>>

\* lines 95-116: roll, normalise, smooth, plot, drop the empty slots;
\* interp1d raises ValueError when the buffer is shorter than an hour
Prepare ==
    /\ r_pc = "prepare"
    /\ IF ~Has(parameters, "upper_limit")
       THEN /\ Crash("KeyError")
            /\ UNCHANGED <<time_stamps, audio_signal, sig_den, audio_plot>>
       ELSE IF Len(LastHour(audio_signal)) # HourChunks
       THEN /\ Crash("ValueError")
            /\ UNCHANGED <<time_stamps, audio_signal, sig_den, audio_plot>>
       ELSE LET buffer_len == Len(time_stamps)
                rolled_time == Roll(time_stamps, RollShift(buffer_len, current_pos))
                rolled_audio == Roll(audio_signal, RollShift(buffer_len, current_pos))
                smoothed == GaussianFilter1d(rolled_audio)
                mask == Written(rolled_time)
            IN  /\ audio_plot' = Resample(LastHour(smoothed))
                /\ time_stamps' = Masked(rolled_time, mask)
                /\ audio_signal' = Masked(smoothed, mask)
                /\ sig_den' = sig_den * parameters["upper_limit"] * KernelSum
                /\ r_pc' = "classify"
                /\ UNCHANGED r_err
    /\ UNCHANGED <<sharedVars, lock, clock, audioVars, conn, parameters, current_pos,
                   snap_count, segVars, clientVars>>

\* lines 118-122
Classify ==
    /\ r_pc = "classify"
    /\ IF ~Has(parameters, "noise_threshold")
       THEN /\ Crash("KeyError")
            /\ UNCHANGED <<noise, silent>>
       ELSE LET thr == parameters["noise_threshold"]
            IN  /\ noise' = [i \in 1 .. Len(audio_signal) |->
                                IsNoise(audio_signal[i], sig_den, thr)]
                /\ silent' = [i \in 1 .. Len(audio_signal) |->
                                IsSilent(audio_signal[i], sig_den, thr)]
                /\ r_pc' = "join"
                /\ UNCHANGED r_err
    /\ UNCHANGED <<sharedVars, lock, clock, audioVars, conn, parameters, snapVars,
                   crying_blocks, time_crying, time_quiet, clientVars>>

\* lines 124-157
FindBlocks ==
    /\ r_pc = "join"
    /\ IF ~AnyTrue(noise)
       THEN /\ crying_blocks' = << >>
            /\ r_pc' = "state"
            /\ UNCHANGED <<noise, r_err>>
       ELSE IF \/ JoinCandidates(silent) # {} /\ ~Has(parameters, "min_quiet_time")
               \/ ~Has(parameters, "min_noise_time")
       THEN /\ Crash("KeyError")
            /\ UNCHANGED <<noise, crying_blocks>>
       ELSE LET joined ==
                    IF JoinCandidates(silent) = {} THEN noise
                    ELSE JoinNoise(noise, silent, time_stamps,
                                   parameters["min_quiet_time"])
            IN  /\ noise' = joined
                /\ crying_blocks' = CryingBlocks(FindObjects(joined, 1), time_stamps,
                                                 parameters["min_noise_time"])
                /\ r_pc' = "state"
                /\ UNCHANGED r_err
    /\ UNCHANGED <<sharedVars, lock, clock, audioVars, conn, parameters, snapVars,
                   silent, time_crying, time_quiet, clientVars>>

\* lines 159-171: time_stamps[0] raises IndexError on an empty history,
\* parameters['min_quiet_time'] is read only when a block was found
CurrentState ==
    /\ r_pc = "state"
    /\ IF Len(crying_blocks) = 0 /\ time_stamps = << >>
       THEN /\ Crash("IndexError")
            /\ UNCHANGED <<time_crying, time_quiet>>
       ELSE IF Len(crying_blocks) # 0 /\ ~Has(parameters, "min_quiet_time")
       THEN /\ Crash("KeyError")
            /\ UNCHANGED <<time_crying, time_quiet>>
       ELSE LET time_current == clock
                min_quiet_time == IF Len(crying_blocks) = 0 THEN 0
                                  ELSE parameters["min_quiet_time"]
                strs == CurrentStrings(crying_blocks, time_stamps, time_current,
                                       min_quiet_time)
            IN  /\ time_crying' = strs.time_crying
                /\ time_quiet' = strs.time_quiet
                /\ r_pc' = "send"
                /\ UNCHANGED r_err
    /\ UNCHANGED <<sharedVars, lock, clock, audioVars, conn, parameters, snapVars,
                   noise, silent, crying_blocks, clientVars>>

\* lines 173-179: conn.send(results); conn.close().  The locals are dead
\* from here to the next request and are reset.
Send ==
    /\ r_pc = "send"
    /\ \/ /\ ~PeerGone
          /\ response' = <<[audio_plot |-> audio_plot,
                            crying_blocks |-> crying_blocks,
                            time_crying |-> time_crying,
                            time_quiet |-> time_quiet]>>
          /\ r_pc' = "accept"
          /\ UNCHANGED r_err
       \/ /\ PeerGone
          /\ r_pc' = "accept"
          /\ UNCHANGED <<response, r_err>>
       \/ /\ PeerGone
          /\ Crash("IOError")
          /\ UNCHANGED response
    /\ IF r_pc' = "accept"
       THEN /\ parameters' = NoParams
            /\ time_stamps' = << >>
            /\ audio_signal' = << >>
            /\ sig_den' = 1
            /\ current_pos' = 0
            /\ snap_count' = 0
            /\ audio_plot' = << >>
            /\ noise' = << >>
            /\ silent' = << >>
            /\ crying_blocks' = << >>
            /\ time_crying' = EmptyStr
            /\ time_quiet' = EmptyStr
       ELSE UNCHANGED <<parameters, snapVars, segVars>>
    /\ UNCHANGED <<sharedVars, lock, clock, audioVars, conn, c_pc, request, n_conn>>

\* ------------------------------- the client (web_server.broadcast_mic_data)
\* conn = Client(audio_server): refused once the listener's process has died
ClientConnect ==
    /\ c_pc = "idle"
    /\ r_pc # "crashed"
    /\ n_conn < MaxConns
    /\ n_conn' = n_conn + 1
    /\ c_pc' = "connected"
    /\ UNCHANGED <<sharedVars, lock, clock, audioVars, reqVars, snapVars, segVars,
                   request, response>>

\* conn.send(parameters)
ClientSend ==
    /\ c_pc = "connected"
    /\ \E p \in ParamSets : request' = <<p>>
    /\ c_pc' = "sent"
    /\ UNCHANGED <<sharedVars, lock, clock, audioVars, reqVars, snapVars, segVars,
                   response, n_conn>>

\* results = conn.recv()
ClientRecv ==
    /\ c_pc = "sent"
    /\ response # NoMsg
    /\ c_pc' = "got"
    /\ UNCHANGED <<sharedVars, lock, clock, audioVars, reqVars, snapVars, segVars,
                   request, response, n_conn>>

\* conn.close()
ClientClose ==
    /\ c_pc = "got"
    /\ c_pc' = "idle"
    /\ response' = NoMsg
    /\ UNCHANGED <<sharedVars, lock, clock, audioVars, reqVars, snapVars, segVars,
                   request, n_conn>>

\* the client goes away: before it sends, while it waits for the answer,
\* or because the server's end was closed by the death of its process
ClientAbort ==
    /\ c_pc \in {"connected", "sent"}
    /\ conn = n_conn
    /\ request = NoMsg
    /\ response = NoMsg
    /\ c_pc' = "idle"
    /\ UNCHANGED <<sharedVars, lock, clock, audioVars, reqVars, snapVars, segVars,
                   request, response, n_conn>>

\* ------------------------------------------------------ the whole system
Init ==
    /\ shared_time = [i \in Slots |-> 0]
    /\ shared_audio = [i \in Slots |-> 0]
    /\ shared_pos = 0
    /\ lock = "free"
    /\ clock = 1
    /\ a_pc = "open"
    /\ audio = << >>
    /\ current_time = 0
    /\ history = << >>
    /\ r_pc = "accept"
    /\ r_err = "none"
    /\ conn = 0
    /\ parameters = NoParams
    /\ time_stamps = << >>
    /\ audio_signal = << >>
    /\ sig_den = 1
    /\ current_pos = 0
    /\ snap_count = 0
    /\ audio_plot = << >>
    /\ noise = << >>
    /\ silent = << >>
    /\ crying_blocks = << >>
    /\ time_crying = EmptyStr
    /\ time_quiet = EmptyStr
    /\ c_pc = "idle"
    /\ request = NoMsg
    /\ response = NoMsg
    /\ n_conn = 0

Next ==
    \/ OpenStream \/ StreamRead \/ AudioAcquire \/ WriteTime \/ WriteAudio
    \/ IncPos \/ AudioRelease
    \/ Accept \/ Recv \/ ReqAcquire \/ CopyTime \/ CopyAudio \/ CopyPos
    \/ ReqRelease \/ Prepare \/ Classify \/ FindBlocks \/ CurrentState \/ Send
    \/ ClientConnect \/ ClientSend \/ ClientRecv \/ ClientClose \/ ClientAbort

Spec == Init /\ [][Next]_vars

\* ------------------------------------------------------------- scheduling
\* the steps of process_audio other than waiting for the lock: the device
\* delivers or fails, and a running process goes on to its next statement
CaptureStep ==
    OpenStream \/ StreamRead \/ WriteTime \/ WriteAudio \/ IncPos \/ AudioRelease

\* the steps of process_requests from accept() to the release of the lock,
\* other than waiting for the lock; accept() and recv() are enabled only
\* when a client has given them something
SnapshotStep ==
    Accept \/ Recv \/ CopyTime \/ CopyAudio \/ CopyPos \/ ReqRelease

\* conn.send(parameters) of web_server.py: the dict of lines 35-38 with its
\* four keys
ClientSendFull ==
    /\ c_pc = "connected"
    /\ request' = <<FullParameters>>
    /\ c_pc' = "sent"
    /\ UNCHANGED <<sharedVars, lock, clock, audioVars, reqVars, snapVars, segVars,
                   response, n_conn>>

\* the two processes with the web server as the only client
FairNext ==
    \/ OpenStream \/ StreamRead \/ AudioAcquire \/ WriteTime \/ WriteAudio
    \/ IncPos \/ AudioRelease
    \/ Accept \/ Recv \/ ReqAcquire \/ CopyTime \/ CopyAudio \/ CopyPos
    \/ ReqRelease \/ Prepare \/ Classify \/ FindBlocks \/ CurrentState \/ Send
    \/ ClientConnect \/ ClientSendFull \/ ClientRecv \/ ClientClose \/ ClientAbort

\* both processes run, and the lock is handed out fairly: a process that
\* finds it free again and again gets it. Nothing is assumed of the clients,
\* nor of the time the computation of lines 95-179 takes
FairSpec ==
    /\ Init
    /\ [][FairNext]_vars
    /\ WF_vars(CaptureStep)
    /\ WF_vars(SnapshotStep)
    /\ SF_vars(AudioAcquire)
    /\ SF_vars(ReqAcquire)

\* ------------------------------------------- the segmentation on its own
\* strictly increasing timestamps 1 .. MaxT, as the capture loop writes them
RECURSIVE Increasing(_, _)
Increasing(n, from) ==
    IF n = 0 THEN {<< >>}
    ELSE UNION {{<<t>> \o s : s \in Increasing(n - 1, t + 1)} : t \in from .. MaxT}

\* smoothed values over 4: below, at and above the threshold 1/4
SegValues == {0, 1, 2}

SegParameters ==
    {[upper_limit |-> 25000, noise_threshold |-> <<1, 4>>,
      min_quiet_time |-> q, min_noise_time |-> m] : q \in {1, 2}, m \in {1, 3}}

\* process_requests at line 118 with its locals drawn from bounded sets;
\* everything else as after construction
SegInit ==
    /\ shared_time = [i \in Slots |-> 0]
    /\ shared_audio = [i \in Slots |-> 0]
    /\ shared_pos = 0
    /\ lock = "free"
    /\ clock = MaxT + 1
    /\ a_pc = "open"
    /\ audio = << >>
    /\ current_time = 0
    /\ history = << >>
    /\ r_pc = "classify"
    /\ r_err = "none"
    /\ conn = 1
    /\ parameters \in SegParameters
    /\ \E n \in 0 .. MaxLen :
          /\ time_stamps \in Increasing(n, 1)
          /\ audio_signal \in [1 .. n -> SegValues]
    /\ sig_den = 4
    /\ current_pos = 0
    /\ snap_count = 0
    /\ audio_plot = << >>
    /\ noise = << >>
    /\ silent = << >>
    /\ crying_blocks = << >>
    /\ time_crying = EmptyStr
    /\ time_quiet = EmptyStr
    /\ c_pc = "sent"
    /\ request = NoMsg
    /\ response = NoMsg
    /\ n_conn = 1

SegNext == Classify \/ FindBlocks \/ CurrentState

SegSpec == SegInit /\ [][SegNext]_vars

\* ================================================================ claims
\* what the claims speak of, said without the operators of the model
Handling == r_pc \in {"prepare", "classify", "join", "state", "send"}
Segmented == r_pc \in {"state", "send"}
Threshold == parameters["noise_threshold"]
Loud(i) == audio_signal[i] * Threshold[2] > Threshold[1] * sig_den
Quiet(i) == audio_signal[i] * Threshold[2] < Threshold[1] * sig_den
Tie(i) == audio_signal[i] * Threshold[2] = Threshold[1] * sig_den
Extent(a, b) == time_stamps[b] - time_stamps[a]
Last(S) == CHOOSE k \in S : \A j \in S : j <= k

\* the appends completed before the snapshot
Snapped == SubSeq(history, 1, snap_count)

\* the shared arrays and the cursor after exactly the appends h
TimeAfter(h) ==
    [i \in 1 .. BufferLen |->
        LET ks == {k \in 1 .. Len(h) : (k - 1) % BufferLen = i - 1}
        IN  IF ks = {} THEN 0 ELSE h[Last(ks)].time]
AudioAfter(h) ==
    [i \in 1 .. BufferLen |->
        LET ks == {k \in 1 .. Len(h) : (k - 1) % BufferLen = i - 1}
        IN  IF ks = {} THEN 0 ELSE h[Last(ks)].amp]
PosAfter(h) == Len(h) % BufferLen

\* the last BufferLen appends of h, oldest first
Retained(h) ==
    LET n == Len(h)
        m == IF n < BufferLen THEN n ELSE BufferLen
    IN  [i \in 1 .. m |-> h[n - m + i]]

\* C1: a snapshot rotated by its cursor, the never-written slots removed,
\* is the last BufferLen appended samples (all of them when fewer were
\* appended), oldest first; after BufferLen or more appends no slot is removed
C1_Wraparound ==
    /\ r_pc = "prepare" =>
          LET shift == RollShift(Len(time_stamps), current_pos)
              rt == Roll(time_stamps, shift)
              ra == Roll(audio_signal, shift)
              kept == Retained(Snapped)
              rtk == IF snap_count >= BufferLen THEN rt ELSE Masked(rt, Written(rt))
              rak == IF snap_count >= BufferLen THEN ra ELSE Masked(ra, Written(rt))
          IN  /\ Len(rtk) = Len(kept)
              /\ \A i \in 1 .. Len(kept) :
                    rtk[i] = kept[i].time /\ rak[i] = kept[i].amp
    /\ r_pc \in {"classify", "join", "state", "send"} =>
          LET kept == Retained(Snapped)
          IN  /\ Len(time_stamps) = Len(kept)
              /\ \A i \in 1 .. Len(kept) : time_stamps[i] = kept[i].time

\* the buffer has wrapped: one more append than slots
C1_Witness ==
    /\ r_pc = "classify"
    /\ snap_count = BufferLen + 1
    /\ Len(time_stamps) = BufferLen
    /\ time_stamps[1] = history[2].time

\* C2: a completed snapshot holds exactly the appends whose critical
\* section ended before the snapshot's began, and stays so while later
\* appends are made
C2_SnapshotIsolation ==
    r_pc \in {"release", "prepare"} =>
        LET ta == TimeAfter(Snapped)
            aa == AudioAfter(Snapped)
        IN  /\ \A i \in 1 .. BufferLen :
                  time_stamps[i] = ta[i] /\ audio_signal[i] = aa[i]
            /\ current_pos = PosAfter(Snapped)

\* one append before the snapshot, one after it
C2_Witness ==
    /\ r_pc = "prepare"
    /\ snap_count > 0
    /\ Len(history) > snap_count
    /\ shared_time # [i \in Slots |-> time_stamps[i + 1]]

\* C3: a completed snapshot is the shared state after a whole number of
\* appends
C3_NoTornRead ==
    r_pc \in {"release", "prepare"} =>
        \E n \in 0 .. Len(history) :
            LET h == SubSeq(history, 1, n)
                ta == TimeAfter(h)
                aa == AudioAfter(h)
            IN  /\ current_pos = PosAfter(h)
                /\ \A i \in 1 .. BufferLen :
                      time_stamps[i] = ta[i] /\ audio_signal[i] = aa[i]

\* the snapshot was taken while the capture loop waited with a sample
C3_Witness ==
    /\ r_pc = "release"
    /\ a_pc = "acquire"
    /\ snap_count > 0

\* C4: a well-formed query on a buffer nothing was appended to is answered
\* "quiet", without blocks, and the handler does not die
C4_EmptyInput ==
    (snap_count = 0 /\ DOMAIN parameters = Keys) =>
        /\ r_pc # "crashed"
        /\ r_pc = "send" =>
              /\ time_quiet # EmptyStr
              /\ time_crying = EmptyStr
              /\ crying_blocks = << >>

\* C5: a request with a key missing does not end the request process
C5_MalformedRequest ==
    ~(r_pc = "crashed" /\ r_err = "KeyError" /\ DOMAIN parameters # Keys)

\* C10: a response has exactly one of time_crying and time_quiet non-empty
C10_OneOfCryingQuiet ==
    /\ r_pc = "send" => ((time_crying = EmptyStr) # (time_quiet = EmptyStr))
    /\ response # NoMsg =>
          ((response[1].time_crying = EmptyStr) # (response[1].time_quiet = EmptyStr))

\* a response that reports noise and a block
C10_Witness ==
    /\ response # NoMsg
    /\ response[1].time_crying # EmptyStr
    /\ response[1].crying_blocks # << >>

\* ---- claims about the segmentation (lines 118-157), under SegSpec
MinQuiet == parameters["min_quiet_time"]
MinNoise == parameters["min_noise_time"]
Indices == 1 .. Len(time_stamps)

\* the whole sequence is a loud run, the quiet run a .. b, a loud run
LoudQuietLoud(a, b) ==
    /\ 1 < a /\ a <= b /\ b < Len(time_stamps)
    /\ \A i \in Indices :
          IF a <= i /\ i <= b THEN Quiet(i) ELSE Loud(i)

\* crying_blocks[k] runs from sample a to sample b
IsBlock(k, a, b) ==
    /\ k <= Len(crying_blocks)
    /\ crying_blocks[k].start = time_stamps[a]
    /\ crying_blocks[k].stop = time_stamps[b]

\* a .. b is a maximal run of the loud mask as it is after the joining
MaximalLoudRun(a, b) ==
    /\ a <= b
    /\ \A i \in a .. b : noise[i]
    /\ a = 1 \/ ~noise[a - 1]
    /\ b = Len(noise) \/ ~noise[b + 1]

\* C6 as stated: a quiet run shorter than min_quiet_time between two loud
\* runs always gives one block over the whole extent; a longer one gives two
\* blocks when each loud run lasts min_noise_time
C6_AsStated ==
    Segmented =>
        \A a, b \in Indices :
            LoudQuietLoud(a, b) =>
                IF Extent(a, b) < MinQuiet
                THEN Len(crying_blocks) = 1 /\ IsBlock(1, 1, Len(time_stamps))
                ELSE (Extent(1, a - 1) >= MinNoise /\ Extent(b + 1, Len(time_stamps)) >= MinNoise)
                     => /\ Len(crying_blocks) = 2
                        /\ IsBlock(1, 1, a - 1)
                        /\ IsBlock(2, b + 1, Len(time_stamps))

\* C6, amended: a quiet run shorter than min_quiet_time between two loud
\* runs joins them into one run over the whole extent, returned as the one
\* block when that extent is at least min_noise_time and dropped otherwise; a
\* quiet run of min_quiet_time or more gives two blocks when each loud run
\* lasts min_noise_time
C6_MergeRule ==
    Segmented =>
        \A a, b \in Indices :
            LoudQuietLoud(a, b) =>
                IF Extent(a, b) < MinQuiet
                THEN IF Extent(1, Len(time_stamps)) >= MinNoise
                     THEN Len(crying_blocks) = 1 /\ IsBlock(1, 1, Len(time_stamps))
                     ELSE crying_blocks = << >>
                ELSE (Extent(1, a - 1) >= MinNoise /\ Extent(b + 1, Len(time_stamps)) >= MinNoise)
                     => /\ Len(crying_blocks) = 2
                        /\ IsBlock(1, 1, a - 1)
                        /\ IsBlock(2, b + 1, Len(time_stamps))

\* two loud runs joined over a quiet run of two samples
C6_Witness ==
    /\ Segmented
    /\ \E a, b \in Indices :
          /\ LoudQuietLoud(a, b)
          /\ a < b
          /\ Extent(a, b) < MinQuiet
          /\ Len(crying_blocks) = 1
          /\ IsBlock(1, 1, Len(time_stamps))

\* C7: a maximal loud run shorter than min_noise_time gives no block, one of
\* exactly min_noise_time gives a block
C7_MinimumDuration ==
    Segmented =>
        \A a, b \in Indices :
            MaximalLoudRun(a, b) =>
                /\ Extent(a, b) < MinNoise =>
                      \A k \in 1 .. Len(crying_blocks) :
                          \/ crying_blocks[k].stop < time_stamps[a]
                          \/ crying_blocks[k].start > time_stamps[b]
                /\ Extent(a, b) = MinNoise =>
                      \E k \in 1 .. Len(crying_blocks) : IsBlock(k, a, b)

\* a run too short was dropped and a run of exactly min_noise_time kept
C7_Witness ==
    /\ Segmented
    /\ \E a, b \in Indices :
          MaximalLoudRun(a, b) /\ Extent(a, b) < MinNoise
    /\ \E a, b \in Indices :
          /\ MaximalLoudRun(a, b)
          /\ Extent(a, b) = MinNoise
          /\ \E k \in 1 .. Len(crying_blocks) : IsBlock(k, a, b)

\* C8: the quiet samples from index 0 up to the first sample that is not
\* quiet stay out of the loud mask, and no block starts among them
C8_LeadingEdge ==
    Segmented =>
        \A b \in Indices :
            (\A i \in 1 .. b : Quiet(i)) =>
                /\ \A i \in 1 .. b : ~noise[i]
                /\ \A k \in 1 .. Len(crying_blocks) :
                      crying_blocks[k].start > time_stamps[b]

\* a leading quiet run shorter than min_quiet_time, followed by a block
C8_Witness ==
    /\ Segmented
    /\ Len(time_stamps) >= 3
    /\ Quiet(1) /\ Quiet(2) /\ Loud(3)
    /\ Extent(1, 2) < MinQuiet
    /\ crying_blocks # << >>
    /\ crying_blocks[1].start = time_stamps[3]

ExactlyOne(p, q, r) ==
    \/ p /\ ~q /\ ~r
    \/ ~p /\ q /\ ~r
    \/ ~p /\ ~q /\ r

\* C9: a sample equal to the threshold is in neither mask, and every sample
\* is exactly one of loud, quiet, equal
C9_TieBreak ==
    /\ r_pc = "join" =>
          \A i \in Indices :
              /\ Tie(i) => ~noise[i] /\ ~silent[i]
              /\ ExactlyOne(noise[i], silent[i], Tie(i))
    /\ Segmented =>
          \A i \in Indices : Tie(i) => ~noise[i] /\ ~silent[i]

\* a sample at the threshold between a loud and a quiet one
C9_Witness ==
    /\ r_pc = "join"
    /\ Len(time_stamps) >= 3
    /\ noise[1] /\ Tie(2) /\ silent[3]

\* the seconds a formatted difference <<days, hours, minutes, seconds>> says
Seconds(f) == f[1] * 86400 + f[2] * 3600 + f[3] * 60 + f[4]

\* C11: with no block the state is quiet since the first timestamp; with
\* blocks, last being the latest one, the state is noise since last.start
\* when now - last.stop < min_quiet_time and quiet since last.stop otherwise
C11_CurrentStateRule ==
    r_pc = "send" =>
        LET now == clock
        IN  IF crying_blocks = << >>
            THEN /\ time_crying = EmptyStr
                 /\ time_quiet # EmptyStr
                 /\ time_quiet[1] = StrQuiet
                 /\ Seconds(time_quiet[2]) = now - time_stamps[1]
            ELSE LET last == crying_blocks[Len(crying_blocks)]
                 IN  /\ \A k \in 1 .. Len(crying_blocks) :
                            crying_blocks[k].stop <= last.stop
                     /\ IF now - last.stop < MinQuiet
                        THEN /\ time_quiet = EmptyStr
                             /\ time_crying # EmptyStr
                             /\ time_crying[1] = StrCrying
                             /\ Seconds(time_crying[2]) = now - last.start
                        ELSE /\ time_crying = EmptyStr
                             /\ time_quiet # EmptyStr
                             /\ time_quiet[1] = StrQuiet
                             /\ Seconds(time_quiet[2]) = now - last.stop

\* noise is reported inside the hysteresis window of a block that began
\* after the first sample
C11_Witness ==
    /\ r_pc = "send"
    /\ crying_blocks # << >>
    /\ time_crying # EmptyStr
    /\ clock - crying_blocks[Len(crying_blocks)].stop < MinQuiet
    /\ crying_blocks[Len(crying_blocks)].start > time_stamps[1]

\* a .. n is the maximal quiet run that ends at the last index n
TrailingQuiet(a) ==
    /\ a \in Indices
    /\ \A i \in a .. Len(time_stamps) : Quiet(i)
    /\ a = 1 \/ ~Quiet(a - 1)

C19_BlocksWellFormed ==
    Segmented =>
        /\ \A k \in 1 .. Len(crying_blocks) :
              /\ crying_blocks[k].stop - crying_blocks[k].start >= MinNoise
              /\ k < Len(crying_blocks) =>
                    crying_blocks[k].stop < crying_blocks[k + 1].start
        /\ \A b, c \in Indices :
              (/\ noise[b]
               /\ noise[c]
               /\ b + 1 < c
               /\ \A i \in b + 1 .. c - 1 : ~noise[i])
              => \/ \E i \in b + 1 .. c - 1 : Tie(i)
                 \/ /\ \A i \in b + 1 .. c - 1 : Quiet(i)
                    /\ Extent(b + 1, c - 1) >= MinQuiet

\* two blocks with a quiet run between them
C19_Witness ==
    /\ Segmented
    /\ Len(crying_blocks) = 2
    /\ \E i \in Indices :
          /\ Quiet(i)
          /\ time_stamps[i] > crying_blocks[1].stop
          /\ time_stamps[i] < crying_blocks[2].start

\* the steps of process_audio inside lock.acquire() .. lock.release()
AudioCritical == {"write_time", "write_audio", "inc_pos", "release"}
\* the steps of process_requests inside lock.acquire() .. lock.release()
ReqCritical == {"copy_time", "copy_audio", "copy_pos", "release"}

\* C12: the capture loop holds the lock only while it writes the slot and
\* the cursor, never while it reads the device; the query server holds it
\* only while it copies, never while it accepts, receives, segments or sends
C12_LockOnlyAroundCopy ==
    /\ lock = "audio" <=> a_pc \in AudioCritical
    /\ lock = "requests" <=> r_pc \in ReqCritical

\* the query server copies under the lock while the capture loop, with a
\* window read, waits for it
C12_Witness ==
    /\ lock = "requests"
    /\ r_pc = "copy_audio"
    /\ a_pc = "acquire"
    /\ history # << >>

\* C14: a client that disconnects before its request or during the write of
\* the response does not end the query server
C14_TransportErrorIsolated ==
    ~(r_pc = "crashed" /\ r_err \in {"EOFError", "IOError"})

\* C15: after a failed open or read the capture worker is ended, does not
\* hold the lock, and the arrays and the cursor stay as the completed
\* appends left them: nothing is written for the failed window or later
C15_DeviceFailure ==
    /\ [](a_pc = "dead" =>
            /\ lock # "audio"
            /\ FromBuffer(shared_time) = TimeAfter(history)
            /\ FromBuffer(shared_audio) = AudioAfter(history)
            /\ shared_pos = PosAfter(history)
            /\ Len(history) = IF clock = 1 THEN 0 ELSE clock - 2)
    /\ [][a_pc = "dead" =>
            /\ a_pc' = "dead"
            /\ UNCHANGED <<sharedVars, history>>]_vars

\* a read failed after an append, and a query is answered from what is left
C15_Witness ==
    /\ a_pc = "dead"
    /\ history # << >>
    /\ lock = "free"
    /\ r_pc = "send"
    /\ snap_count = Len(history)

\* the largest absolute value of the samples of w, in the integers
MaxAbs(w) ==
    CHOOSE m \in {Abs(w[i]) : i \in 1 .. Len(w)} :
        \A i \in 1 .. Len(w) : Abs(w[i]) <= m

\* C16: the amplitude stored for a window is not negative and is the
\* largest absolute value of its samples, -32768 included
C16_PeakIsMaxAbs ==
    a_pc = "inc_pos" =>
        /\ shared_audio[shared_pos] >= 0
        /\ shared_audio[shared_pos] = MaxAbs(audio)

\* C18: the shared arrays and the cursor change only in a step of the
\* capture loop inside its critical section; no step of the query server
\* or of a client changes them
C18_QueryLeavesSharedState ==
    [][sharedVars' # sharedVars =>
          /\ a_pc \in AudioCritical
          /\ a_pc' # a_pc
          /\ UNCHANGED <<reqVars, snapVars, segVars, clientVars>>]_vars

\* a query is served up to its response and the arrays are as the appends
\* left them
C18_Witness ==
    /\ r_pc = "send"
    /\ snap_count >= 1
    /\ a_pc \in {"read", "acquire"}
    /\ FromBuffer(shared_time) = TimeAfter(history)
    /\ FromBuffer(shared_audio) = AudioAfter(history)
    /\ shared_pos = PosAfter(history)

\* the query server waits in recv() for a client that is connected and has
\* sent nothing
Stalled == r_pc = "recv" /\ request = NoMsg /\ ~PeerGone

\* C13: the query server does not wait for ever on a client that has
\* connected and sends no request: again and again it is past that wait
C13_StalledClientDropped == []<>(~Stalled)

\* C20: a capture loop waiting for the lock completes its append, a query
\* server waiting for the lock gets its snapshot, and a lock that is held
\* is released
C20_NoStarvation ==
    /\ (a_pc = "acquire") ~> (a_pc = "release")
    /\ (r_pc = "acquire") ~> (r_pc = "prepare")
    /\ (lock # "free") ~> (lock = "free")

\* both processes want the lock: the query server has it and the capture
\* loop waits with a window, after an earlier append
C20_Witness ==
    /\ a_pc = "acquire"
    /\ lock = "requests"
    /\ r_pc = "copy_time"
    /\ Len(history) >= 1

====
